---- MODULE Spec2Model ----
(***************************************************************************)
(* Reservation and approval engine of the institutional event resource     *)
(* management application (src/app.py, src/database.py).                   *)
(*                                                                         *)
(* The database is one shared SQLite file.  Every request handler opens    *)
(* its own connection (get_db).  A SELECT runs in autocommit mode and sees *)
(* the last committed state; the first INSERT/UPDATE of a handler opens a  *)
(* transaction that holds the write lock until db.commit(), so the writes  *)
(* of one handler become visible together.  A handler is therefore a       *)
(* sequence of steps: each SELECT that precedes the first write is a step  *)
(* of its own, and everything from the first write to the commit is one    *)
(* step.  Text values are sequences of character codes; SQLite compares    *)
(* TEXT columns lexicographically.                                         *)
(***************************************************************************)
EXTENDS Integers, Sequences, FiniteSets, TLC

\* ------------------------------------------------------------------ bounds
MaxEvents == 2          \* rows the events table may hold
MaxRequests == 5        \* requests that get past their first checks in one run

\* ------------------------------------------------------------------- text
Whitespace == {9, 10, 13, 32}

RECURSIVE LStrip(_)
LStrip(s) ==
    IF s # <<>> /\ Head(s) \in Whitespace THEN LStrip(Tail(s)) ELSE s

RECURSIVE RStrip(_)
RStrip(s) ==
    IF s # <<>> /\ s[Len(s)] \in Whitespace
    THEN RStrip(SubSeq(s, 1, Len(s) - 1))
    ELSE s

\* the text left as typed
Strip_None(s) == s

\* str.strip()
Strip(s) == RStrip(LStrip(s))

\* SQLite BINARY collation on TEXT: a < b
RECURSIVE TextLt(_, _)
TextLt(a, b) ==
    IF b = <<>> THEN FALSE
    ELSE IF a = <<>> THEN TRUE
    ELSE IF Head(a) # Head(b) THEN Head(a) < Head(b)
    ELSE TextLt(Tail(a), Tail(b))

\* a <= b
TextLeq(a, b) == a = b \/ TextLt(a, b)

\* ------------------------------------------------------------ seed tables
\* users: id -> role
UserRole ==
    1 :> "coordinator" @@ 2 :> "hod" @@ 3 :> "dean" @@ 4 :> "head" @@ 5 :> "admin"

UserIds == DOMAIN UserRole

ApproverUsers == {u \in UserIds : UserRole[u] \in {"hod", "dean", "head"}}

Coordinators == {u \in UserIds : UserRole[u] = "coordinator"}

\* venues: id -> capacity, for the venue the admin added after the three
\* seeded ones (venues are inserted, never updated)
VenueCapacity == 4 :> 1

\* resources: id -> total_quantity, for the resource the admin added after
\* the four seeded ones; it is inserted with available_quantity = total_quantity
TotalQuantity == 5 :> 1

APPROVAL_FLOW ==
    "pending_hod"  :> [role |-> "hod",  next |-> "pending_dean"] @@
    "pending_dean" :> [role |-> "dean", next |-> "pending_head"] @@
    "pending_head" :> [role |-> "head", next |-> "approved"]

\* the approver role left in place when the chain ends
NextRole_NotCleared(next_status) ==
    IF next_status \in DOMAIN APPROVAL_FLOW THEN APPROVAL_FLOW[next_status].role ELSE "head"

\* APPROVAL_FLOW.get(next_status, {}).get("role", "")
NextRole(next_status) ==
    IF next_status \in DOMAIN APPROVAL_FLOW THEN APPROVAL_FLOW[next_status].role ELSE ""

\* f"pending_{role}"
ExpectedStatus(role) ==
    CASE role = "hod"  -> "pending_hod"
      [] role = "dean" -> "pending_dean"
      [] role = "head" -> "pending_head"
      [] OTHER         -> "pending_other"

\* ----------------------------------------------------------------- inputs
T0900 == <<48, 57, 58, 48, 48>>
T1000 == <<49, 48, 58, 48, 48>>
T1100 == <<49, 49, 58, 48, 48>>
Date1 == <<50, 48, 50, 52, 45, 48, 53, 45, 48, 49>>
Title1 == <<70, 101, 115, 116>>
Blank == <<32>>
ReasonInputs == {<<>>, Blank, <<110, 111, 32>>}
CommentInputs == {<<111, 107>>}
EventIdInputs == 1..MaxEvents

Workers == {1, 2}

VARIABLES
    resources,        \* resources table: id -> [total_quantity, available_quantity]
    events,           \* events table: sequence of rows, id = position
    event_resources,  \* event_resources table: set of rows
    approvals,        \* approvals table: event_id -> its rows in insertion order
    proc,             \* per worker: the request handler it is running
    releases,         \* history: per event id, how often its holds were credited
    started,          \* history: requests that got past their first checks
    limit             \* the bounds of the run: requests served, rows of events

vars == <<resources, events, event_resources, approvals, proc, releases, started, limit>>

db == <<resources, events, event_resources, approvals>>

ResourceIds == DOMAIN resources

Idle == [pc |-> "idle"]

\* requests go to the first free worker
FirstFree(w) ==
    /\ proc[w].pc = "idle"
    /\ \A v \in Workers : v < w => proc[v].pc # "idle"

\* the handler returns at once: nothing was written
Refuse == UNCHANGED <<proc, started>>

\* the handler goes on with the local values in rec
Start(w, rec) ==
    /\ started < limit.requests
    /\ proc' = [proc EXCEPT ![w] = rec]
    /\ started' = started + 1

Init ==
    /\ resources = [r \in DOMAIN TotalQuantity |->
                      [total_quantity |-> TotalQuantity[r],
                       available_quantity |-> TotalQuantity[r]]]
    /\ events = <<>>
    /\ event_resources = {}
    /\ approvals = [e \in EventIdInputs |-> <<>>]
    /\ proc = [w \in Workers |-> Idle]
    /\ releases = [e \in EventIdInputs |-> 0]
    /\ started = 0
    /\ limit = [requests |-> MaxRequests, events |-> MaxEvents]

\* ------------------------------------------------------------- new_event
\* the time ranges typed into the form: two ranges that touch
SlotInputs == {<<T0900, T1000>>, <<T1000, T1100>>}

\* the quantities typed into the resource fields: nothing, up to all there
\* is, or one more than there is
QtyInputs ==
    LET top == CHOOSE m \in {TotalQuantity[r] : r \in DOMAIN TotalQuantity} :
                   \A r \in DOMAIN TotalQuantity : TotalQuantity[r] <= m
    IN  {q \in [DOMAIN TotalQuantity -> 0..(top + 1)] :
            \A r \in DOMAIN TotalQuantity : q[r] <= TotalQuantity[r] + 1}

\* forms that pass the checks on the form itself
GoodForms ==
    {[title |-> Title1, event_date |-> Date1, start_time |-> sl[1], end_time |-> sl[2],
      expected_attendees |-> VenueCapacity[v], venue_id |-> v, qty |-> q] :
        sl \in SlotInputs, v \in DOMAIN VenueCapacity, q \in QtyInputs}

BaseForm ==
    [title |-> Title1, event_date |-> Date1, start_time |-> T0900, end_time |-> T1000,
     expected_attendees |-> 1, venue_id |-> 4, qty |-> [r \in DOMAIN TotalQuantity |-> 0]]

\* forms with a blank or missing field, an unknown venue or too many attendees
BadForms ==
    {[BaseForm EXCEPT !.title = Blank], [BaseForm EXCEPT !.event_date = <<>>],
     [BaseForm EXCEPT !.start_time = <<>>], [BaseForm EXCEPT !.end_time = Blank],
     [BaseForm EXCEPT !.venue_id = 0], [BaseForm EXCEPT !.venue_id = 9]}
    \cup {[BaseForm EXCEPT !.expected_attendees = VenueCapacity[v] + 1, !.venue_id = v] :
             v \in DOMAIN VenueCapacity}

FormInputs == GoodForms \cup BadForms

\* a coordinator posts any form; the other roles are turned away whatever they post
NewEventInputs ==
    {<<u, f>> \in UserIds \X FormInputs : UserRole[u] = "coordinator" \/ f = BaseForm}

\* handlers that passed the form checks and may still insert an event row
InFlightNew == {w \in Workers : proc[w].pc \in {"new_conflict", "new_commit"}}

\* request.form.get(...).strip() of every text field
StripForm(form) ==
    [form EXCEPT !.title = Strip(form.title),
                 !.event_date = Strip(form.event_date),
                 !.start_time = Strip(form.start_time),
                 !.end_time = Strip(form.end_time)]

\* not all([title, event_date, start_time, end_time, venue_id])
MissingField(f) ==
    \/ f.title = <<>>
    \/ f.event_date = <<>>
    \/ f.start_time = <<>>
    \/ f.end_time = <<>>
    \/ f.venue_id = 0

\* a capacity check that lets one attendee too many in
OverCapacity_OffByOne(f) == f.expected_attendees > VenueCapacity[f.venue_id] + 1

\* expected_attendees > venue["capacity"]
OverCapacity(f) == f.expected_attendees > VenueCapacity[f.venue_id]

\* what the handler answers before it reads a row of a mutable table:
\* role_required, basic validation, venue lookup, capacity check
FormCheck(user, f) ==
    IF UserRole[user] # "coordinator" THEN <<"Forbidden">>
    ELSE IF MissingField(f) THEN <<"ValidationError">>
    ELSE IF f.venue_id \notin DOMAIN VenueCapacity THEN <<"VenueNotFound">>
    ELSE IF OverCapacity(f)
         THEN <<"CapacityExceeded", f.expected_attendees, VenueCapacity[f.venue_id]>>
    ELSE <<"Ok">>

\* role check, SELECT of venues and resources, form parsing, basic
\* validation, venue lookup and capacity check
NewEventLoad(w, user, form) ==
    /\ FirstFree(w)
    /\ LET f == StripForm(form)
       IN  IF FormCheck(user, f) # <<"Ok">>
           THEN Refuse
           ELSE /\ Len(events) + Cardinality(InFlightNew) < limit.events
                /\ Start(w, [pc |-> "new_conflict", user |-> user, form |-> f,
                             snapshot |-> [r \in ResourceIds |->
                                             resources[r].available_quantity]])
    /\ UNCHANGED <<resources, events, event_resources, approvals, releases, limit>>

\* an overlap test that also counts ranges that touch
Overlaps_Closed(row, start_time, end_time) ==
    ~(TextLt(row.end_time, start_time) \/ TextLt(end_time, row.start_time))

\* NOT (end_time <= ? OR start_time >= ?)
Overlaps(row, start_time, end_time) ==
    ~(TextLeq(row.end_time, start_time) \/ TextLeq(end_time, row.start_time))

\* status NOT IN ('rejected', 'completed')
Active(row) == row.status \notin {"rejected", "completed"}

\* the venue time-slot conflict SELECT
ConflictRows(venue_id, event_date, start_time, end_time) ==
    {i \in DOMAIN events :
        /\ events[i].venue_id = venue_id
        /\ events[i].event_date = event_date
        /\ Active(events[i])
        /\ Overlaps(events[i], start_time, end_time)}

Min(S) == CHOOSE x \in S : \A y \in S : x <= y

\* a resource loop that checks the first requested resource only
Short_FirstOnly(qty, snapshot) ==
    LET asked == {r \in DOMAIN qty : qty[r] > 0}
    IN  {r \in asked : (\A x \in asked : r <= x) /\ qty[r] > snapshot[r]}

\* qty > 0 and qty > res["available_quantity"], on the rows read at the start
Short(qty, snapshot) == {r \in DOMAIN qty : qty[r] > 0 /\ qty[r] > snapshot[r]}

\* the resource loop run before the conflict SELECT
SlotCheck_StockFirst(f, snapshot) ==
    LET conflict == ConflictRows(f.venue_id, f.event_date, f.start_time, f.end_time)
        short == Short(f.qty, snapshot)
    IN  IF short # {}
        THEN <<"InsufficientStock", Min(short), snapshot[Min(short)], f.qty[Min(short)]>>
        ELSE IF conflict # {} THEN <<"TimeSlotConflict", Min(conflict)>>
        ELSE <<"Ok">>

\* what the handler answers after the conflict SELECT and the resource loop
SlotCheck(f, snapshot) ==
    LET conflict == ConflictRows(f.venue_id, f.event_date, f.start_time, f.end_time)
        short == Short(f.qty, snapshot)
    IN  IF conflict # {} THEN <<"TimeSlotConflict", Min(conflict)>>
        ELSE IF short # {}
        THEN <<"InsufficientStock", Min(short), snapshot[Min(short)], f.qty[Min(short)]>>
        ELSE <<"Ok">>

\* conflict SELECT, then the resource validation loop
NewEventConflict(w) ==
    /\ proc[w].pc = "new_conflict"
    /\ proc' = [proc EXCEPT ![w] =
                  IF SlotCheck(proc[w].form, proc[w].snapshot) # <<"Ok">>
                  THEN Idle
                  ELSE [pc |-> "new_commit", user |-> proc[w].user, form |-> proc[w].form]]
    /\ UNCHANGED <<resources, events, event_resources, approvals, releases, started, limit>>

\* the debits left to a later transaction
Debit_Deferred(res, qty) == res

\* UPDATE resources SET available_quantity = available_quantity - ?
Debit(res, qty) ==
    [r \in DOMAIN res |->
        IF qty[r] > 0
        THEN [res[r] EXCEPT !.available_quantity = @ - qty[r]]
        ELSE res[r]]

\* a reservation loop that stops after its first hold row
HoldRows_FirstOnly(event_id, qty) ==
    {[event_id |-> event_id, resource_id |-> r, quantity_requested |-> qty[r]] :
        r \in {x \in DOMAIN qty : qty[x] > 0 /\ \A y \in DOMAIN qty : qty[y] > 0 => x <= y}}

\* the hold rows of a new event: one per resource with qty > 0
HoldRows(event_id, qty) ==
    {[event_id |-> event_id, resource_id |-> r, quantity_requested |-> qty[r]] :
        r \in {x \in DOMAIN qty : qty[x] > 0}}

\* INSERT of the event row, the hold rows and the debits, then commit
NewEventCommit(w) ==
    /\ proc[w].pc = "new_commit"
    /\ LET p == proc[w]
           f == p.form
           event_id == Len(events) + 1
       IN  /\ events' = Append(events,
                  [title |-> f.title, event_date |-> f.event_date,
                   start_time |-> f.start_time, end_time |-> f.end_time,
                   expected_attendees |-> f.expected_attendees,
                   venue_id |-> f.venue_id, status |-> "pending_hod",
                   current_approver_role |-> "hod", created_by |-> p.user,
                   rejection_reason |-> <<>>])
           /\ event_resources' = event_resources \cup HoldRows(event_id, f.qty)
           /\ resources' = Debit(resources, f.qty)
    /\ proc' = [proc EXCEPT ![w] = Idle]
    /\ UNCHANGED <<approvals, releases, started, limit>>

\* ---------------------------------------------------------- approve_event
\* an approver check that looks at the role and not at the status of the event
ApproverCheck_AnyStatus(user, event_id) ==
    IF UserRole[user] \notin {"hod", "dean", "head"} THEN "Forbidden"
    ELSE IF event_id \notin DOMAIN events THEN "NotFound"
    ELSE IF events[event_id].status \notin DOMAIN APPROVAL_FLOW THEN "NotCurrentApprover"
    ELSE "Ok"

\* what approve_event and reject_event answer after reading the event row
ApproverCheck(user, event_id) ==
    IF UserRole[user] \notin {"hod", "dean", "head"} THEN "Forbidden"
    ELSE IF event_id \notin DOMAIN events THEN "NotFound"
    ELSE IF events[event_id].status # ExpectedStatus(UserRole[user]) THEN "NotCurrentApprover"
    ELSE "Ok"

\* role check, SELECT of the event row, current-approver check
ApproveLoad(w, user, event_id, comment) ==
    /\ FirstFree(w)
    /\ IF ApproverCheck(user, event_id) # "Ok"
       THEN Refuse
       ELSE Start(w, [pc |-> "approve_commit", user |-> user, event_id |-> event_id,
                      status |-> events[event_id].status, comment |-> Strip(comment)])
    /\ UNCHANGED <<resources, events, event_resources, approvals, releases, limit>>

\* an approval whose UPDATE also writes the comment into rejection_reason
ApproveCommit_SetsReason(w) ==
    /\ proc[w].pc = "approve_commit"
    /\ LET p == proc[w]
           next_status == APPROVAL_FLOW[p.status].next
       IN  /\ approvals' = [approvals EXCEPT ![p.event_id] =
                  Append(@, [approver_id |-> p.user, role |-> UserRole[p.user],
                             action |-> "approved", comment |-> p.comment])]
           /\ events' = [events EXCEPT ![p.event_id].status = next_status,
                                       ![p.event_id].current_approver_role =
                                           NextRole(next_status),
                                       ![p.event_id].rejection_reason = p.comment]
    /\ proc' = [proc EXCEPT ![w] = Idle]
    /\ UNCHANGED <<resources, event_resources, releases, started, limit>>

\* INSERT INTO approvals, UPDATE events SET status, current_approver_role; commit
ApproveCommit(w) ==
    /\ proc[w].pc = "approve_commit"
    /\ LET p == proc[w]
           next_status == APPROVAL_FLOW[p.status].next
           next_role == NextRole(next_status)
       IN  /\ approvals' = [approvals EXCEPT ![p.event_id] =
                  Append(@, [approver_id |-> p.user, role |-> UserRole[p.user],
                             action |-> "approved", comment |-> p.comment])]
           /\ events' = [events EXCEPT ![p.event_id].status = next_status,
                                       ![p.event_id].current_approver_role = next_role]
    /\ proc' = [proc EXCEPT ![w] = Idle]
    /\ UNCHANGED <<resources, event_resources, releases, started, limit>>

\* ----------------------------------------------------------- reject_event
\* the reason check that follows the current-approver check
RejectCheck(user, event_id, reason) ==
    IF ApproverCheck(user, event_id) # "Ok" THEN ApproverCheck(user, event_id)
    ELSE IF reason = <<>> THEN "ValidationError"
    ELSE "Ok"

\* role check, SELECT of the event row, current-approver check, reason check
RejectLoad(w, user, event_id, reason_in) ==
    /\ FirstFree(w)
    /\ IF RejectCheck(user, event_id, Strip(reason_in)) # "Ok"
       THEN Refuse
       ELSE Start(w, [pc |-> "reject_commit", user |-> user, event_id |-> event_id,
                      reason |-> Strip(reason_in)])
    /\ UNCHANGED <<resources, events, event_resources, approvals, releases, limit>>

\* SELECT resource_id, quantity_requested FROM event_resources WHERE event_id = ?
Reserved(event_id) == {h \in event_resources : h.event_id = event_id}

\* a release that reads one hold row (fetchone) and credits only that one
Credit_FirstRowOnly(res, reserved) ==
    IF reserved = {} THEN res
    ELSE LET h == CHOOSE x \in reserved :
                      \A y \in reserved : x.resource_id <= y.resource_id
         IN  [res EXCEPT ![h.resource_id].available_quantity = @ + h.quantity_requested]

\* UPDATE resources SET available_quantity = available_quantity + ?, per hold row
Credit(res, reserved) ==
    [r \in DOMAIN res |->
        IF \E h \in reserved : h.resource_id = r
        THEN LET h == CHOOSE x \in reserved : x.resource_id = r
             IN  [res[r] EXCEPT !.available_quantity = @ + h.quantity_requested]
        ELSE res[r]]

\* INSERT INTO approvals, UPDATE events, release of the holds; commit
RejectCommit(w) ==
    /\ proc[w].pc = "reject_commit"
    /\ LET p == proc[w]
       IN  /\ approvals' = [approvals EXCEPT ![p.event_id] =
                  Append(@, [approver_id |-> p.user, role |-> UserRole[p.user],
                             action |-> "rejected", comment |-> p.reason])]
           /\ events' = [events EXCEPT ![p.event_id].status = "rejected",
                                       ![p.event_id].rejection_reason = p.reason,
                                       ![p.event_id].current_approver_role = ""]
           /\ resources' = Credit(resources, Reserved(p.event_id))
           /\ releases' = [releases EXCEPT ![p.event_id] = @ + 1]
    /\ proc' = [proc EXCEPT ![w] = Idle]
    /\ UNCHANGED <<event_resources, started, limit>>

\* --------------------------------------------------------- complete_event
\* what complete_event answers after reading the event row
CompleteCheck(user, event_id) ==
    IF UserRole[user] # "coordinator" THEN "Forbidden"
    ELSE IF event_id \notin DOMAIN events THEN "NotFound"
    ELSE IF events[event_id].status # "approved" \/ events[event_id].created_by # user
         THEN "CannotComplete"
    ELSE "Ok"

\* role check, SELECT of the event row, status and owner check
CompleteLoad(w, user, event_id) ==
    /\ FirstFree(w)
    /\ IF CompleteCheck(user, event_id) # "Ok"
       THEN Refuse
       ELSE Start(w, [pc |-> "complete_commit", user |-> user, event_id |-> event_id])
    /\ UNCHANGED <<resources, events, event_resources, approvals, releases, limit>>

\* UPDATE events SET status = 'completed', release of the holds; commit
CompleteCommit(w) ==
    /\ proc[w].pc = "complete_commit"
    /\ LET p == proc[w]
       IN  /\ events' = [events EXCEPT ![p.event_id].status = "completed",
                                       ![p.event_id].current_approver_role = ""]
           /\ resources' = Credit(resources, Reserved(p.event_id))
           /\ releases' = [releases EXCEPT ![p.event_id] = @ + 1]
    /\ proc' = [proc EXCEPT ![w] = Idle]
    /\ UNCHANGED <<event_resources, approvals, started, limit>>

\* ------------------------------------------------------------------ system
\* an approver sends any comment or reason; the other roles are turned away
\* whatever they send
ApproveInputs ==
    {<<u, e, c>> \in UserIds \X EventIdInputs \X CommentInputs :
        UserRole[u] \in {"hod", "dean", "head"} \/ e = 1}

RejectInputs ==
    {<<u, e, r>> \in UserIds \X EventIdInputs \X ReasonInputs :
        UserRole[u] \in {"hod", "dean", "head"} \/ (e = 1 /\ r = Blank)}

CompleteInputs ==
    {<<u, e>> \in UserIds \X EventIdInputs : UserRole[u] = "coordinator" \/ e = 1}

Next ==
    \/ \E w \in Workers, in \in NewEventInputs : NewEventLoad(w, in[1], in[2])
    \/ \E w \in Workers : NewEventConflict(w)
    \/ \E w \in Workers : NewEventCommit(w)
    \/ \E w \in Workers, in \in ApproveInputs : ApproveLoad(w, in[1], in[2], in[3])
    \/ \E w \in Workers : ApproveCommit(w)
    \/ \E w \in Workers, in \in RejectInputs : RejectLoad(w, in[1], in[2], in[3])
    \/ \E w \in Workers : RejectCommit(w)
    \/ \E w \in Workers, in \in CompleteInputs : CompleteLoad(w, in[1], in[2])
    \/ \E w \in Workers : CompleteCommit(w)

Spec == Init /\ [][Next]_vars

\* ------------------------------------------- a second resource, more forms
\* resources: id -> total_quantity, when the admin has added two resources
TotalQuantityPair == 5 :> 1 @@ 6 :> 1

T0930 == <<48, 57, 58, 51, 48>>
T1030 == <<49, 48, 58, 51, 48>>

\* 09:00-10:00, one unit of each resource
HeldForm ==
    [title |-> Title1, event_date |-> Date1, start_time |-> T0900, end_time |-> T1000,
     expected_attendees |-> 1, venue_id |-> 4, qty |-> (5 :> 1 @@ 6 :> 1)]

\* 09:30-10:30, no resources: overlaps 09:00-10:00 and 10:00-11:00 in part
PartialForm ==
    [HeldForm EXCEPT !.start_time = T0930, !.end_time = T1030, !.qty = (5 :> 0 @@ 6 :> 0)]

\* 10:00-11:00, no resources: touches 09:00-10:00
TouchForm ==
    [HeldForm EXCEPT !.start_time = T1000, !.end_time = T1100, !.qty = (5 :> 0 @@ 6 :> 0)]

\* end before start
InvertedForm ==
    [HeldForm EXCEPT !.start_time = T1030, !.end_time = T0930, !.qty = (5 :> 0 @@ 6 :> 0)]

\* expected_attendees left at its default of 0
ZeroForm ==
    [TouchForm EXCEPT !.expected_attendees = 0]

\* 10:00-11:00, resource 5 within stock and resource 6 beyond it
ShortForm ==
    [TouchForm EXCEPT !.qty = (5 :> 1 @@ 6 :> 2)]

\* 09:30-10:30, more of resource 5 than exists
OverlapShortForm ==
    [PartialForm EXCEPT !.qty = (5 :> 2 @@ 6 :> 0)]

\* 09:30-10:30, more attendees than the venue holds
OverlapCapacityForm ==
    [PartialForm EXCEPT !.expected_attendees = VenueCapacity[4] + 1]

\* an unknown venue and more attendees than any venue holds
NoVenueCapacityForm ==
    [PartialForm EXCEPT !.venue_id = 9, !.expected_attendees = VenueCapacity[4] + 1]

\* forms with a blank or missing field
BlankForms ==
    {[HeldForm EXCEPT !.title = Blank], [HeldForm EXCEPT !.event_date = <<>>],
     [HeldForm EXCEPT !.start_time = <<>>], [HeldForm EXCEPT !.end_time = Blank],
     [HeldForm EXCEPT !.venue_id = 0],
     [OverlapCapacityForm EXCEPT !.title = <<>>]}

AdmissionForms ==
    {HeldForm, PartialForm, TouchForm, ShortForm,
     OverlapShortForm, OverlapCapacityForm, NoVenueCapacityForm} \cup BlankForms

AdmissionInputs == {<<u, f>> \in UserIds \X AdmissionForms : UserRole[u] = "coordinator"}

\* the database after the admin has added two resources
InitAdmission ==
    /\ resources = [r \in DOMAIN TotalQuantityPair |->
                      [total_quantity |-> TotalQuantityPair[r],
                       available_quantity |-> TotalQuantityPair[r]]]
    /\ events = <<>>
    /\ event_resources = {}
    /\ approvals = [e \in EventIdInputs |-> <<>>]
    /\ proc = [w \in Workers |-> Idle]
    /\ releases = [e \in EventIdInputs |-> 0]
    /\ started = 0
    /\ limit = [requests |-> MaxRequests, events |-> MaxEvents]

\* the requests of the second system: the approvers and the coordinator act
\* on any booking; the reason is never blank
NextAdmission ==
    \/ \E w \in Workers, in \in AdmissionInputs : NewEventLoad(w, in[1], in[2])
    \/ \E w \in Workers : NewEventConflict(w)
    \/ \E w \in Workers : NewEventCommit(w)
    \/ \E w \in Workers, u \in ApproverUsers, e \in EventIdInputs, c \in CommentInputs :
           ApproveLoad(w, u, e, c)
    \/ \E w \in Workers : ApproveCommit(w)
    \/ \E w \in Workers, u \in ApproverUsers, e \in EventIdInputs :
           RejectLoad(w, u, e, <<110, 111, 32>>)
    \/ \E w \in Workers : RejectCommit(w)
    \/ \E w \in Workers, u \in Coordinators, e \in EventIdInputs : CompleteLoad(w, u, e)
    \/ \E w \in Workers : CompleteCommit(w)

SpecAdmission == InitAdmission /\ [][NextAdmission]_vars

\* ------------------------------------- a whole life of a booking, and more
\* the coordinator posts a form that holds resources, one whose range ends
\* before it starts, or one with no attendees
LifecycleInputs ==
    {<<u, f>> \in UserIds \X {HeldForm, InvertedForm, ZeroForm} : UserRole[u] = "coordinator"}

\* the database after the admin has added two resources; the run is long
\* enough for a booking to be completed and one more request to be served
InitLifecycle ==
    /\ resources = [r \in DOMAIN TotalQuantityPair |->
                      [total_quantity |-> TotalQuantityPair[r],
                       available_quantity |-> TotalQuantityPair[r]]]
    /\ events = <<>>
    /\ event_resources = {}
    /\ approvals = [e \in EventIdInputs |-> <<>>]
    /\ proc = [w \in Workers |-> Idle]
    /\ releases = [e \in EventIdInputs |-> 0]
    /\ started = 0
    /\ limit = [requests |-> MaxRequests + 1, events |-> MaxEvents]

NextLifecycle ==
    \/ \E w \in Workers, in \in LifecycleInputs : NewEventLoad(w, in[1], in[2])
    \/ \E w \in Workers : NewEventConflict(w)
    \/ \E w \in Workers : NewEventCommit(w)
    \/ \E w \in Workers, u \in ApproverUsers, e \in EventIdInputs, c \in CommentInputs :
           ApproveLoad(w, u, e, c)
    \/ \E w \in Workers : ApproveCommit(w)
    \/ \E w \in Workers, u \in ApproverUsers, e \in EventIdInputs :
           RejectLoad(w, u, e, <<110, 111, 32>>)
    \/ \E w \in Workers : RejectCommit(w)
    \/ \E w \in Workers, u \in Coordinators, e \in EventIdInputs : CompleteLoad(w, u, e)
    \/ \E w \in Workers : CompleteCommit(w)

SpecLifecycle == InitLifecycle /\ [][NextLifecycle]_vars

\* ------------------------------------------- one request after the other
\* 09:00-10:00, 09:30-10:30 or 10:00-11:00 with no resource, one unit of
\* resource 5, one of each, or more of resource 5 than there is; or the range
\* that ends before it starts
SerialForms ==
    {[HeldForm EXCEPT !.start_time = sl[1], !.end_time = sl[2], !.qty = q] :
        sl \in {<<T0900, T1000>>, <<T0930, T1030>>, <<T1000, T1100>>},
        q \in {(5 :> 0 @@ 6 :> 0), (5 :> 1 @@ 6 :> 0), (5 :> 1 @@ 6 :> 1), (5 :> 2 @@ 6 :> 1)}}
    \cup {InvertedForm}

SerialInputs == {<<u, f>> \in UserIds \X SerialForms : UserRole[u] = "coordinator"}

\* no handler is between its first read and its commit
AllIdle == \A w \in Workers : proc[w].pc = "idle"

\* the database after the admin has added two resources
InitSerial ==
    /\ resources = [r \in DOMAIN TotalQuantityPair |->
                      [total_quantity |-> TotalQuantityPair[r],
                       available_quantity |-> TotalQuantityPair[r]]]
    /\ events = <<>>
    /\ event_resources = {}
    /\ approvals = [e \in EventIdInputs |-> <<>>]
    /\ proc = [w \in Workers |-> Idle]
    /\ releases = [e \in EventIdInputs |-> 0]
    /\ started = 0
    /\ limit = [requests |-> MaxRequests + 1, events |-> MaxEvents]

\* the server takes a request only when the one before has been answered
NextSerial ==
    \/ \E w \in Workers, in \in SerialInputs : AllIdle /\ NewEventLoad(w, in[1], in[2])
    \/ \E w \in Workers : NewEventConflict(w)
    \/ \E w \in Workers : NewEventCommit(w)
    \/ \E w \in Workers, u \in ApproverUsers, e \in EventIdInputs, c \in CommentInputs :
           AllIdle /\ ApproveLoad(w, u, e, c)
    \/ \E w \in Workers : ApproveCommit(w)
    \/ \E w \in Workers, u \in ApproverUsers, e \in EventIdInputs, r \in ReasonInputs :
           AllIdle /\ RejectLoad(w, u, e, r)
    \/ \E w \in Workers : RejectCommit(w)
    \/ \E w \in Workers, u \in Coordinators, e \in EventIdInputs :
           AllIdle /\ CompleteLoad(w, u, e)
    \/ \E w \in Workers : CompleteCommit(w)

SpecSerial == InitSerial /\ [][NextSerial]_vars

\* ------------------------------------------------------------- properties
Terminal == {"rejected", "completed"}

RECURSIVE SumQty(_)
SumQty(rows) ==
    IF rows = {} THEN 0
    ELSE LET h == CHOOSE x \in rows : TRUE
         IN  h.quantity_requested + SumQty(rows \ {h})

\* the holds on resource r owned by bookings that are neither rejected nor completed
OutstandingHolds(r) ==
    {h \in event_resources : h.resource_id = r /\ Active(events[h.event_id])}

\* the status a handler at its commit step found when it read the event row
StatusRead(p) ==
    CASE p.pc = "approve_commit"  -> p.status
      [] p.pc = "reject_commit"   -> ExpectedStatus(UserRole[p.user])
      [] p.pc = "complete_commit" -> "approved"

AllowedTransitions ==
    {<<"pending_hod", "pending_dean">>, <<"pending_dean", "pending_head">>,
     <<"pending_head", "approved">>, <<"approved", "completed">>,
     <<"pending_hod", "rejected">>, <<"pending_dean", "rejected">>,
     <<"pending_head", "rejected">>}

\* C1: for every resource, available_quantity plus the quantities held by
\* bookings that are neither rejected nor completed equals total_quantity.
C1_LedgerBalanced ==
    \A r \in ResourceIds :
        resources[r].available_quantity + SumQty(OutstandingHolds(r))
            = resources[r].total_quantity

\* C2: no two distinct bookings on the same venue and date, both neither
\* rejected nor completed, have overlapping time ranges.
C2_NoDoubleBooking ==
    \A i, j \in DOMAIN events :
        (/\ i # j
         /\ events[i].venue_id = events[j].venue_id
         /\ events[i].event_date = events[j].event_date
         /\ Active(events[i])
         /\ Active(events[j]))
        => ~Overlaps(events[i], events[j].start_time, events[j].end_time)

\* C3: every change of a booking's status is one step of the approval chain,
\* approved -> completed, or pending_* -> rejected; rejected and completed
\* bookings never change status again.
C3_StatusMovesForward ==
    [][\A e \in DOMAIN events :
          events'[e].status # events[e].status
              => <<events[e].status, events'[e].status>> \in AllowedTransitions]_vars

\* C4: the holds of a booking are credited back at most once, and they have
\* been credited exactly when the booking is rejected or completed.
C4_ReleasedExactlyOnce ==
    \A e \in DOMAIN events :
        releases[e] = IF events[e].status \in Terminal THEN 1 ELSE 0

\* C5: every resource satisfies 0 <= available_quantity <= total_quantity.
C5_AvailableInRange ==
    \A r \in ResourceIds :
        /\ 0 <= resources[r].available_quantity
        /\ resources[r].available_quantity <= resources[r].total_quantity

\* the quantity of resource r that booking e holds
HeldBy(e, r) == SumQty({h \in event_resources : h.event_id = e /\ h.resource_id = r})

\* C6: two submissions for slots that do not overlap, whose requests for a
\* resource together exceed its stock, are never both admitted: two live
\* bookings on different slots never hold more of a resource than exists.
C6_NotBothAdmitted ==
    \A i, j \in DOMAIN events, r \in ResourceIds :
        (/\ i # j
         /\ Active(events[i])
         /\ Active(events[j])
         /\ ~Overlaps(events[i], events[j].start_time, events[j].end_time))
        => HeldBy(i, r) + HeldBy(j, r) <= resources[r].total_quantity

\* C7: a handler that lost a race writes nothing: whenever an approve, reject
\* or complete handler commits, the booking still has the status it read.
C7_NoStaleCommit ==
    [][\A w \in Workers :
          (proc[w].pc \in {"approve_commit", "reject_commit", "complete_commit"}
              /\ proc'[w].pc = "idle")
          => events[proc[w].event_id].status = StatusRead(proc[w])]_vars

\* C8: an approve or reject request by an approver whose role is not the one
\* the booking is waiting for is answered NotCurrentApprover and can change
\* nothing, whatever comment or reason comes with it.
C8_WrongApproverRefused ==
    \A u \in ApproverUsers, e \in DOMAIN events :
        events[e].status # ExpectedStatus(UserRole[u]) =>
            /\ ApproverCheck(u, e) = "NotCurrentApprover"
            /\ \A r \in ReasonInputs : RejectCheck(u, e, Strip(r)) = "NotCurrentApprover"
            /\ \A w \in Workers, c \in CommentInputs :
                   ~ENABLED (ApproveLoad(w, u, e, c) /\ vars' # vars)
            /\ \A w \in Workers, r \in ReasonInputs :
                   ~ENABLED (RejectLoad(w, u, e, r) /\ vars' # vars)

\* C8 witness: a booking waits for the dean and a worker is free to take the
\* head of department's approve request, which is answered NotCurrentApprover.
C8_Witness ==
    \E u \in ApproverUsers, e \in DOMAIN events, c \in CommentInputs :
        /\ UserRole[u] = "hod"
        /\ events[e].status = "pending_dean"
        /\ ApproverCheck(u, e) = "NotCurrentApprover"
        /\ approvals[e] # <<>>
        /\ ENABLED ApproveLoad(1, u, e, c)

\* empty or whitespace-only text
IsBlank(s) == \A i \in DOMAIN s : s[i] \in Whitespace

\* C9: a reject request by the current approver with an empty or
\* whitespace-only reason is a validation error and can change nothing.
C9_BlankReasonRefused ==
    \A u \in ApproverUsers, e \in DOMAIN events, r \in ReasonInputs :
        (events[e].status = ExpectedStatus(UserRole[u]) /\ IsBlank(r)) =>
            /\ RejectCheck(u, e, Strip(r)) = "ValidationError"
            /\ \A w \in Workers : ~ENABLED (RejectLoad(w, u, e, r) /\ vars' # vars)

\* C9 witness: a booking with holds waits for the dean and a worker is free to
\* take the dean's reject request with a reason of one space.
C9_Witness ==
    \E u \in ApproverUsers, e \in DOMAIN events :
        /\ events[e].status = "pending_dean"
        /\ UserRole[u] = "dean"
        /\ Reserved(e) # {}
        /\ RejectCheck(u, e, Strip(Blank)) = "ValidationError"
        /\ ENABLED RejectLoad(1, u, e, Blank)

\* C10: a submission with more attendees than the venue holds is answered
\* CapacityExceeded(requested, capacity) and can change nothing; every stored
\* booking has expected_attendees <= the capacity of its venue.
C10_CapacityEnforced ==
    /\ \A e \in DOMAIN events :
           events[e].expected_attendees <= VenueCapacity[events[e].venue_id]
    /\ \A u \in Coordinators, f \in FormInputs \cup AdmissionForms :
           (/\ ~MissingField(StripForm(f))
            /\ f.venue_id \in DOMAIN VenueCapacity
            /\ f.expected_attendees > VenueCapacity[f.venue_id])
           => /\ FormCheck(u, StripForm(f))
                    = <<"CapacityExceeded", f.expected_attendees, VenueCapacity[f.venue_id]>>
              /\ \A w \in Workers : ~ENABLED (NewEventLoad(w, u, f) /\ vars' # vars)

\* C10 witness: a booking is stored, the table has room for another, and a
\* worker is free to take a form with more attendees than the venue holds.
C10_Witness ==
    \E u \in Coordinators, f \in FormInputs \cup AdmissionForms :
        /\ f.venue_id \in DOMAIN VenueCapacity
        /\ f.expected_attendees > VenueCapacity[f.venue_id]
        /\ Len(events) = 1
        /\ started < MaxRequests
        /\ ENABLED NewEventLoad(1, u, f)

\* the quantity of resource r held by booking e in the hold rows `rows`
HeldIn(rows, e, r) == SumQty({h \in rows : h.event_id = e /\ h.resource_id = r})

\* C15: the writes of an operation become visible together.  The step that
\* makes a booking row visible also makes its hold rows and its debits
\* visible; the step that makes a booking rejected also appends the rejection
\* record, stores the reason and credits its holds; the step that makes a
\* booking completed also credits its holds.
C15_WritesVisibleTogether ==
    [][/\ Len(events') # Len(events) =>
             LET e == Len(events')
             IN  /\ Len(events') = Len(events) + 1
                 /\ \A h \in event_resources' \ event_resources : h.event_id = e
                 /\ \A h \in event_resources : h \in event_resources'
                 /\ \A r \in ResourceIds :
                        resources'[r].available_quantity
                            = resources[r].available_quantity - HeldIn(event_resources', e, r)
       /\ \A e \in DOMAIN events :
             /\ (events'[e].status = "rejected" /\ events[e].status # "rejected") =>
                    /\ Len(approvals'[e]) = Len(approvals[e]) + 1
                    /\ approvals'[e][Len(approvals'[e])].action = "rejected"
                    /\ events'[e].rejection_reason
                           = approvals'[e][Len(approvals'[e])].comment
                    /\ \A r \in ResourceIds :
                           resources'[r].available_quantity
                               = resources[r].available_quantity + HeldIn(event_resources, e, r)
             /\ (events'[e].status = "completed" /\ events[e].status # "completed") =>
                    \A r \in ResourceIds :
                        resources'[r].available_quantity
                            = resources[r].available_quantity + HeldIn(event_resources, e, r)
      ]_vars

\* C15 witness: a booking with holds was created and then rejected; its hold
\* rows, its rejection record and the credit are all there.
C15_Witness ==
    \E e \in DOMAIN events :
        /\ events[e].status = "rejected"
        /\ Reserved(e) # {}
        /\ releases[e] = 1
        /\ approvals[e] # <<>>
        /\ approvals[e][Len(approvals[e])].action = "rejected"
        /\ \A r \in ResourceIds :
               resources[r].available_quantity = resources[r].total_quantity

\* C16: a committing approve changes the status and current_approver_role of
\* its booking (to the next role, or to the empty role when the booking
\* becomes approved) and appends one 'approved' record; the resources, the
\* hold rows, every other field of the booking, every other booking and the
\* approval records of the other bookings stay as they are.
C16_ApproveFrame ==
    [][\A w \in Workers :
          (proc[w].pc = "approve_commit" /\ proc'[w].pc = "idle") =>
              LET e == proc[w].event_id
                  next_status == APPROVAL_FLOW[proc[w].status].next
              IN  /\ resources' = resources
                  /\ event_resources' = event_resources
                  /\ events' = [events EXCEPT
                         ![e].status = next_status,
                         ![e].current_approver_role =
                             IF next_status = "approved" THEN ""
                             ELSE APPROVAL_FLOW[next_status].role]
                  /\ events'[e].rejection_reason = events[e].rejection_reason
                  /\ Len(approvals'[e]) = Len(approvals[e]) + 1
                  /\ approvals'[e][Len(approvals'[e])].action = "approved"
                  /\ SubSeq(approvals'[e], 1, Len(approvals[e])) = approvals[e]
                  /\ \A x \in DOMAIN approvals : x # e => approvals'[x] = approvals[x]
      ]_vars

\* C16 witness: a booking has been approved by all three roles and still
\* holds its resources, which are still debited.
C16_Witness ==
    \E e \in DOMAIN events :
        /\ events[e].status = "approved"
        /\ Len(approvals[e]) = 3
        /\ Reserved(e) # {}
        /\ \E r \in ResourceIds :
               /\ HeldBy(e, r) > 0
               /\ resources[r].available_quantity
                      = resources[r].total_quantity - HeldBy(e, r)

\* the approver role that belongs to a status
RoleOfStatus(status) ==
    CASE status = "pending_hod"  -> "hod"
      [] status = "pending_dean" -> "dean"
      [] status = "pending_head" -> "head"
      [] OTHER                   -> ""

\* C17: current_approver_role is determined by status: hod, dean, head for
\* pending_hod, pending_dean, pending_head and empty for approved, rejected
\* and completed; a booking is created as pending_hod with role hod.
C17_RoleFollowsStatus ==
    /\ \A e \in DOMAIN events :
           /\ events[e].status \in {"pending_hod", "pending_dean", "pending_head",
                                    "approved", "rejected", "completed"}
           /\ events[e].current_approver_role = RoleOfStatus(events[e].status)
           /\ approvals[e] = <<>> =>
                  events[e].status = "pending_hod" /\ events[e].current_approver_role = "hod"

\* C17 witness: one booking is approved with the empty role while another one
\* waits for the head of department.
C17_Witness ==
    \E i, j \in DOMAIN events :
        /\ events[i].status = "approved"
        /\ events[i].current_approver_role = ""
        /\ events[j].status = "pending_hod"
        /\ events[j].current_approver_role = "hod"

\* C20: a release never raises available_quantity above total_quantity: a
\* reject or complete whose credit would do so is aborted and leaves the
\* status and the quantities as they were.
C20_ReleaseCapped ==
    [][\A w \in Workers :
          (proc[w].pc \in {"reject_commit", "complete_commit"} /\ proc'[w].pc = "idle") =>
              IF \E r \in ResourceIds :
                     resources[r].available_quantity + HeldBy(proc[w].event_id, r)
                         > resources[r].total_quantity
              THEN events' = events /\ resources' = resources
              ELSE \A r \in ResourceIds :
                       resources'[r].available_quantity <= resources[r].total_quantity
      ]_vars

\* the minute of the day of a time written HH:MM
TimeMinutes(t) ==
    ((t[1] - 48) * 10 + (t[2] - 48)) * 60 + (t[4] - 48) * 10 + (t[5] - 48)

\* the stored bookings that block the slot of form f
Blocking(f) ==
    {i \in DOMAIN events :
        /\ events[i].venue_id = f.venue_id
        /\ events[i].event_date = f.event_date
        /\ events[i].status \in {"pending_hod", "pending_dean", "pending_head", "approved"}
        /\ ~(\/ TimeMinutes(events[i].end_time) <= TimeMinutes(f.start_time)
             \/ TimeMinutes(events[i].start_time) >= TimeMinutes(f.end_time))}

\* C11: a submission that passed the venue and capacity checks is answered
\* TimeSlotConflict exactly when a stored booking on the same venue and date
\* with status pending_hod, pending_dean, pending_head or approved overlaps
\* its time range; the booking named is one of these; rejected and completed
\* bookings and ranges that only touch do not block.
C11_ConflictIffOverlap ==
    \A w \in Workers :
        proc[w].pc = "new_conflict" =>
            LET f == proc[w].form
                answer == SlotCheck(f, proc[w].snapshot)
            IN  /\ (answer[1] = "TimeSlotConflict") <=> (Blocking(f) # {})
                /\ answer[1] = "TimeSlotConflict" => answer[2] \in Blocking(f)
                /\ \A i \in DOMAIN events :
                       (\/ events[i].status \in {"rejected", "completed"}
                        \/ events[i].end_time = f.start_time
                        \/ events[i].start_time = f.end_time) => i \notin Blocking(f)

\* C11 witness: a handler is about to run the conflict check for a range that
\* overlaps a live booking in part (it starts inside it and ends after it).
C11_Witness ==
    \E w \in Workers, i \in DOMAIN events :
        /\ proc[w].pc = "new_conflict"
        /\ Active(events[i])
        /\ TimeMinutes(events[i].start_time) < TimeMinutes(proc[w].form.start_time)
        /\ TimeMinutes(proc[w].form.start_time) < TimeMinutes(events[i].end_time)
        /\ TimeMinutes(events[i].end_time) < TimeMinutes(proc[w].form.end_time)
        /\ SlotCheck(proc[w].form, proc[w].snapshot) = <<"TimeSlotConflict", i>>

\* C12: a complete that commits finds its booking approved and created by the
\* caller, makes it completed with the empty role and credits every hold;
\* otherwise it changes no booking and no resource.  A booking becomes
\* completed only from approved.
C12_CompleteOnlyApproved ==
    [][/\ \A e \in DOMAIN events :
              (events'[e].status = "completed" /\ events[e].status # "completed")
                  => events[e].status = "approved"
       /\ \A w \in Workers :
              (proc[w].pc = "complete_commit" /\ proc'[w].pc = "idle") =>
                  LET e == proc[w].event_id
                  IN  IF events[e].status = "approved" /\ events[e].created_by = proc[w].user
                      THEN /\ events' = [events EXCEPT ![e].status = "completed",
                                                      ![e].current_approver_role = ""]
                           /\ \A r \in ResourceIds :
                                  resources'[r].available_quantity
                                      = resources[r].available_quantity
                                            + HeldIn(event_resources, e, r)
                      ELSE events' = events /\ resources' = resources
      ]_vars

\* C13: when a booking with holds has been completed or rejected, its holds
\* were released once and no other booking holds anything, every resource is
\* back at the available_quantity it had before the booking was submitted.
C13_HoldRoundTrip ==
    \A e \in DOMAIN events :
        (/\ events[e].status \in Terminal
         /\ Reserved(e) # {}
         /\ releases[e] = 1
         /\ \A x \in DOMAIN events : x # e => Reserved(x) = {})
        => \A r \in ResourceIds :
               resources[r].available_quantity = TotalQuantityPair[r]

\* C13 witness: a booking holding both resources was approved by the three
\* roles and completed, and its holds were released once.
C13_Witness ==
    \E e \in DOMAIN events :
        /\ events[e].status = "completed"
        /\ Len(approvals[e]) = 3
        /\ Cardinality(Reserved(e)) = 2
        /\ releases[e] = 1
        /\ \A x \in DOMAIN events : x # e => Reserved(x) = {}

\* a form that fails a check made on the form and the venue
FailsForm(f) ==
    \/ IsBlank(f.title) \/ IsBlank(f.event_date)
    \/ IsBlank(f.start_time) \/ IsBlank(f.end_time)
    \/ f.venue_id = 0
    \/ f.venue_id \notin DOMAIN VenueCapacity
    \/ f.expected_attendees > VenueCapacity[f.venue_id]

\* some requested resource is beyond the stock the handler read
OverRequested(f, snapshot) ==
    \E r \in DOMAIN f.qty : f.qty[r] > 0 /\ f.qty[r] > snapshot[r]

\* C14: a submission that fails an admission check (missing field, unknown
\* venue, capacity, time-slot conflict, stock of any requested resource) can
\* change no table: its handler returns without a write.
C14_RefusalChangesNothing ==
    /\ \A u \in Coordinators, f \in AdmissionForms :
           FailsForm(f) =>
               \A w \in Workers : ~ENABLED (NewEventLoad(w, u, f) /\ vars' # vars)
    /\ \A w \in Workers :
           (/\ proc[w].pc = "new_conflict"
            /\ Blocking(proc[w].form) # {} \/ OverRequested(proc[w].form, proc[w].snapshot))
           => ~ENABLED (NewEventConflict(w) /\ (db' # db \/ proc'[w] # Idle))

\* C14 witness: a handler is about to run the resource loop for a form whose
\* slot is free, whose first resource is in stock and whose second is not.
C14_Witness ==
    \E w \in Workers :
        /\ proc[w].pc = "new_conflict"
        /\ Blocking(proc[w].form) = {}
        /\ proc[w].form.qty[5] > 0
        /\ proc[w].form.qty[5] <= proc[w].snapshot[5]
        /\ proc[w].form.qty[6] > proc[w].snapshot[6]
        /\ ENABLED NewEventConflict(w)

\* C18: the admission checks answer in the order venue exists, capacity,
\* time-slot conflict, resource stock: the answer is that of the first check
\* the submission fails.
C18_ChecksInOrder ==
    /\ \A u \in Coordinators, f \in AdmissionForms :
           ~MissingField(StripForm(f)) =>
               LET answer == FormCheck(u, StripForm(f))
               IN  IF f.venue_id \notin DOMAIN VenueCapacity
                   THEN answer = <<"VenueNotFound">>
                   ELSE IF f.expected_attendees > VenueCapacity[f.venue_id]
                   THEN answer[1] = "CapacityExceeded"
                   ELSE answer = <<"Ok">>
    /\ \A w \in Workers :
           proc[w].pc = "new_conflict" =>
               LET f == proc[w].form
                   answer == SlotCheck(f, proc[w].snapshot)
               IN  IF Blocking(f) # {} THEN answer[1] = "TimeSlotConflict"
                   ELSE IF OverRequested(f, proc[w].snapshot)
                   THEN answer[1] = "InsufficientStock"
                   ELSE answer = <<"Ok">>

\* C18 witness: a handler is about to check a form that overlaps a live
\* booking and also asks for more of a resource than exists, while a form that
\* overlaps and exceeds the capacity is answered CapacityExceeded.
C18_Witness ==
    \E w \in Workers, u \in Coordinators :
        /\ proc[w].pc = "new_conflict"
        /\ Blocking(proc[w].form) # {}
        /\ OverRequested(proc[w].form, proc[w].snapshot)
        /\ SlotCheck(proc[w].form, proc[w].snapshot)[1] = "TimeSlotConflict"
        /\ Blocking(OverlapCapacityForm) # {}
        /\ FormCheck(u, OverlapCapacityForm)[1] = "CapacityExceeded"

\* C19: every stored booking has start_time < end_time and
\* expected_attendees >= 1.
C19_SlotAndAttendeesValid ==
    \A e \in DOMAIN events :
        /\ TextLt(events[e].start_time, events[e].end_time)
        /\ events[e].expected_attendees >= 1

\* the positions of the 'rejected' records of booking e
RejectedRecords(e) == {k \in DOMAIN approvals[e] : approvals[e][k].action = "rejected"}

\* C21: the approval log mirrors the transitions: a booking that is approved
\* or completed has exactly three records, all 'approved', by hod, dean and
\* head in that order; a booking has at most one 'rejected' record, and that
\* one is its last record.
C21_LogMirrorsTransitions ==
    \A e \in DOMAIN events :
        /\ events[e].status \in {"approved", "completed"} =>
               /\ Len(approvals[e]) = 3
               /\ \A k \in 1..3 : approvals[e][k].action = "approved"
               /\ <<approvals[e][1].role, approvals[e][2].role, approvals[e][3].role>>
                      = <<"hod", "dean", "head">>
        /\ Cardinality(RejectedRecords(e)) <= 1
        /\ \A k \in RejectedRecords(e) : k = Len(approvals[e])

\* C22: rejection_reason is non-empty exactly when the status is rejected, and
\* it is then the comment of the booking's 'rejected' record.
C22_ReasonIffRejected ==
    \A e \in DOMAIN events :
        /\ (events[e].rejection_reason # <<>>) <=> (events[e].status = "rejected")
        /\ events[e].status = "rejected" =>
               /\ RejectedRecords(e) # {}
               /\ \A k \in RejectedRecords(e) :
                      approvals[e][k].comment = events[e].rejection_reason

\* C23: when handlers never interleave, every resource satisfies
\* available_quantity + holds of the bookings that are neither rejected nor
\* completed = total_quantity, and 0 <= available_quantity <= total_quantity.
C23_SerialLedgerConsistent ==
    \A r \in ResourceIds :
        LET avail == resources[r].available_quantity
            held == SumQty({h \in event_resources :
                               h.resource_id = r
                               /\ events[h.event_id].status \notin {"rejected", "completed"}})
        IN  /\ avail + held = resources[r].total_quantity
            /\ 0 <= avail
            /\ avail <= resources[r].total_quantity

\* C23 witness: one booking with holds has been completed and another one is
\* live and holds a resource, which is debited by what that one holds.
C23_Witness ==
    \E i, j \in DOMAIN events, r \in ResourceIds :
        /\ events[i].status = "completed"
        /\ Reserved(i) # {}
        /\ releases[i] = 1
        /\ Active(events[j])
        /\ HeldBy(j, r) > 0
        /\ resources[r].available_quantity = resources[r].total_quantity - HeldBy(j, r)

\* C24: a submission repeated after the first one has committed is not admitted
\* again while the first booking is pending or approved: no two live bookings
\* have the same venue, date, start_time and end_time.
C24_NoDuplicateBooking ==
    \A i, j \in DOMAIN events :
        (/\ i # j
         /\ events[i].status \in {"pending_hod", "pending_dean", "pending_head", "approved"}
         /\ events[j].status \in {"pending_hod", "pending_dean", "pending_head", "approved"})
        => <<events[i].venue_id, events[i].event_date,
             events[i].start_time, events[i].end_time>>
           # <<events[j].venue_id, events[j].event_date,
               events[j].start_time, events[j].end_time>>

====
